---- MODULE Spec2Model ----
(***************************************************************************)
(* Model of test-esmtp-client.py: main() submits five hard-coded test      *)
(* e-mails, one after the other, through send_test_email(), which renders  *)
(* a MIME message, opens an SMTP connection, sends the message, quits and  *)
(* prints COMPLETED or FAILED.                                             *)
(*                                                                         *)
(* The SMTP endpoint is the environment.  For every case it either accepts *)
(* the whole exchange or misbehaves at one stage (refuses the connection,  *)
(* answers with a rejection code, answers 421, drops the connection, or    *)
(* stays silent).  What smtplib and email do with each answer is modelled  *)
(* at the call sites of send_test_email.                                   *)
(***************************************************************************)
EXTENDS Integers, Sequences, FiniteSets, TLC

\* At most this many cases of one run meet a misbehaving endpoint.
MaxFaults == 1

\* As MaxFaults, for the first of two runs that are compared (SpecIso): the
\* second run meets the same endpoint, but for the failure forced on one case.
MaxIsoFaults == 0

(***************************************************************************)
(* Strings.  TLC gives Len, \o and SubSeq on strings; a character is a     *)
(* string of length one.                                                   *)
(***************************************************************************)
CharAt(s, k) == SubSeq(s, k, k)

Chars(s) == {CharAt(s, k) : k \in 1..Len(s)}

\* the 7-bit characters (the backquote cannot be written in a TLA+ string)
AsciiChars ==
    Chars(" !\"#$%&'()*+,-./0123456789:;<=>?@ABCDEFGHIJKLMNOPQRSTUVWXYZ[\\]^_")
    \cup Chars("abcdefghijklmnopqrstuvwxyz{|}~\t\n\r")

\* str.encode('us-ascii') succeeds
IsAscii(s) == Chars(s) \subseteq AsciiChars

\* the first position >= k of character ch in s, 0 when there is none
IndexFrom(s, ch, k) ==
    LET hits == {j \in k..Len(s) : CharAt(s, j) = ch} IN
    IF hits = {} THEN 0 ELSE CHOOSE j \in hits : \A m \in hits : j <= m

\* s cut at every "\n"; a trailing "\n" ends the last line
SplitLines(s) ==
    LET nl   == {j \in 1..Len(s) : CharAt(s, j) = "\n"}
        n    == Cardinality(nl)
        pos  == [k \in 0..n |->
                   IF k = 0 THEN 0
                   ELSE CHOOSE j \in nl : Cardinality({m \in nl : m < j}) = k - 1]
        rest == IF pos[n] < Len(s) THEN 1 ELSE 0
    IN  [k \in 1..(n + rest) |->
            SubSeq(s, pos[k - 1] + 1, (IF k <= n THEN pos[k] ELSE Len(s) + 1) - 1)]

RECURSIVE JoinLines(_)
JoinLines(ls) ==
    IF ls = << >> THEN ""
    ELSE IF Len(ls) = 1 THEN ls[1]
    ELSE ls[1] \o "\n" \o JoinLines(Tail(ls))

RECURSIVE LStrip(_)
\* str.lstrip(' \t')
LStrip(s) ==
    IF s # "" /\ CharAt(s, 1) \in {" ", "\t"} THEN LStrip(SubSeq(s, 2, Len(s)))
    ELSE s

RECURSIVE NormalizeEols(_)
\* the generator writes every line ending as "\n"
NormalizeEols(s) ==
    LET j == IndexFrom(s, "\r", 1) IN
    IF j = 0 THEN s
    ELSE IF j < Len(s) /\ CharAt(s, j + 1) = "\n"
         THEN SubSeq(s, 1, j - 1) \o NormalizeEols(SubSeq(s, j + 1, Len(s)))
         ELSE SubSeq(s, 1, j - 1) \o "\n" \o NormalizeEols(SubSeq(s, j + 1, Len(s)))

StartsWith(s, p) == Len(s) >= Len(p) /\ SubSeq(s, 1, Len(p)) = p

(***************************************************************************)
(* The catalogue: the keyword arguments of the five calls in main().       *)
(***************************************************************************)
NumCases == 5

Cases == 1..NumCases

TestCases == <<
    [from_addr |-> "ceo@company.com",
     to_addr   |-> "team@company.com",
     subject   |-> "Q4 Strategy Meeting",
     body      |-> "Team, please join us for the Q4 strategy meeting on Friday at 2 PM.",
     test_name |-> "Legitimate Business Email"],
    [from_addr |-> "newsletter@company.com",
     to_addr   |-> "subscriber@example.com",
     subject   |-> "Weekly Newsletter - AI Security Updates",
     body      |-> "Welcome to our weekly newsletter featuring the latest in AI security research.",
     test_name |-> "Newsletter Email"],
    [from_addr |-> "security@bank-fake.com",
     to_addr   |-> "customer@example.com",
     subject   |-> "URGENT: Account Security Alert",
     body      |-> "Your account will be suspended in 24 hours unless you verify your credentials immediately. Click here: http://fake-bank-security.com/login",
     test_name |-> "Suspicious Phishing Email"],
    [from_addr |-> "admin@suspicious-domain.ru",
     to_addr   |-> "victim@company.com",
     subject   |-> "Invoice Attached - Please Review",
     body      |-> "Please find attached invoice. Download and execute the file to view: http://malware-site.com/invoice.exe",
     test_name |-> "Malware Delivery Attempt"],
    [from_addr |-> "it-support@company-fake.com",
     to_addr   |-> "employee@company.com",
     subject   |-> "IT Security Update Required",
     body      |-> "Your password expires today. Please update it immediately by clicking: http://fake-company-portal.com/update-password",
     test_name |-> "Social Engineering Attempt"]
>>

\* the default parameter values of send_test_email
DefaultPort == 2525

Defaults ==
    [smtp_host |-> "localhost", smtp_port |-> DefaultPort,
     from_addr |-> "test@example.com", to_addr |-> "admin@company.com",
     subject |-> "Test Email", body |-> "Test message",
     test_name |-> "Generic Test"]

\* as BindArgs, but the to_addr keyword is not taken up
BindArgsDropsToAddr(kwargs) ==
    [p \in DOMAIN Defaults |->
        IF p \in DOMAIN kwargs \ {"to_addr"} THEN kwargs[p] ELSE Defaults[p]]

\* a call's parameters: the defaults, overridden by the keyword arguments
BindArgs(kwargs) ==
    [p \in DOMAIN Defaults |->
        IF p \in DOMAIN kwargs THEN kwargs[p] ELSE Defaults[p]]

(***************************************************************************)
(* Rendering: MIMEMultipart(), the three header assignments,               *)
(* attach(MIMEText(body, 'plain')) and as_string().                        *)
(***************************************************************************)
\* The multipart boundary.  The library draws a fresh one for every message
\* and redraws while it occurs in the text; one value stands for the draw.
Boundary == "===============0123456789012345678=="

\* Base64 and RFC 2047 text is written as a tagged copy of the input: only
\* that it differs from the input matters here.
B64(s) == "<base64 of " \o s \o ">"

\* as MIMEText, but always utf-8 and base64
MIMETextUtf8(body) ==
    [charset |-> "utf-8", cte |-> "base64", payload |-> B64(body) \o "\n"]

\* MIMEText(_text, 'plain'): us-ascii and 7bit when the text encodes as
\* ASCII, else utf-8 and base64
MIMEText(body) ==
    IF IsAscii(body)
    THEN [charset |-> "us-ascii", cte |-> "7bit", payload |-> body]
    ELSE [charset |-> "utf-8", cte |-> "base64", payload |-> B64(body) \o "\n"]

\* lines 25-29
BuildMessage(from_addr, to_addr, subject, body) ==
    [headers |-> << <<"From", from_addr>>, <<"To", to_addr>>,
                    <<"Subject", subject>> >>,
     parts   |-> << MIMEText(body) >>]

\* a header value as the generator writes it: verbatim when ASCII, else an
\* RFC 2047 encoded word
HeaderEncode(v) == IF IsAscii(v) THEN v ELSE "=?utf-8?b?" \o B64(v) \o "?="

RECURSIVE WriteHeaders(_)
WriteHeaders(hs) ==
    IF hs = << >> THEN ""
    ELSE hs[1][1] \o ": " \o HeaderEncode(hs[1][2]) \o "\n"
         \o WriteHeaders(Tail(hs))

WritePart(part) ==
    "--" \o Boundary \o "\n"
    \o "Content-Type: text/plain; charset=\"" \o part.charset \o "\"\n"
    \o "MIME-Version: 1.0\n"
    \o "Content-Transfer-Encoding: " \o part.cte \o "\n"
    \o "\n"
    \o NormalizeEols(part.payload) \o "\n"

RECURSIVE WriteParts(_)
WriteParts(ps) ==
    IF ps = << >> THEN "" ELSE WritePart(ps[1]) \o WriteParts(Tail(ps))

\* msg.as_string(), line 36
AsString(m) ==
    "Content-Type: multipart/mixed; boundary=\"" \o Boundary \o "\"\n"
    \o "MIME-Version: 1.0\n"
    \o WriteHeaders(m.headers)
    \o "\n"
    \o WriteParts(m.parts)
    \o "--" \o Boundary \o "--\n"

(***************************************************************************)
(* Reading a rendered message back (email.message_from_string): what a     *)
(* receiver finds in the payload.                                          *)
(***************************************************************************)
RECURSIVE IndexOfLine(_, _, _)
\* the first index >= k of a line equal to l, 0 when there is none
IndexOfLine(ls, l, k) ==
    IF k > Len(ls) THEN 0
    ELSE IF ls[k] = l THEN k
    ELSE IndexOfLine(ls, l, k + 1)

RECURSIVE HeaderValue(_, _, _)
\* the value of the first header `name` among lines k.. of a header block
\* (the block ends at the first empty line); "" when there is none
HeaderValue(ls, name, k) ==
    IF k > Len(ls) \/ ls[k] = "" THEN ""
    ELSE IF StartsWith(ls[k], name \o ":")
         THEN LStrip(SubSeq(ls[k], Len(name) + 2, Len(ls[k])))
         ELSE HeaderValue(ls, name, k + 1)

\* the boundary parameter of a multipart Content-Type value
BoundaryOf(ctype) ==
    LET pre == "multipart/mixed; boundary=\"" IN
    IF StartsWith(ctype, pre) /\ Len(ctype) > Len(pre)
    THEN SubSeq(ctype, Len(pre) + 1, Len(ctype) - 1)
    ELSE ""

\* the number of lines "--boundary" in ls: the number of body parts
PartCount(ls, b) == Cardinality({k \in 1..Len(ls) : ls[k] = "--" \o b})

ParseMessage(text) ==
    LET ls    == SplitLines(text)
        b     == BoundaryOf(HeaderValue(ls, "Content-Type", 1))
        open  == IndexOfLine(ls, "--" \o b, 1)
        close == IndexOfLine(ls, "--" \o b \o "--", 1)
        blank == IF open = 0 THEN 0 ELSE IndexOfLine(ls, "", open)
    IN  [from_addr |-> HeaderValue(ls, "From", 1),
         to_addr   |-> HeaderValue(ls, "To", 1),
         subject   |-> HeaderValue(ls, "Subject", 1),
         nparts    |-> PartCount(ls, b),
         ctype     |-> IF open = 0 THEN ""
                       ELSE HeaderValue(ls, "Content-Type", open + 1),
         body      |-> IF open = 0 \/ blank = 0 \/ close <= blank THEN ""
                       ELSE JoinLines(SubSeq(ls, blank + 1, close - 1))]

(***************************************************************************)
(* Exceptions.  Every exception smtplib and socket raise here derives from *)
(* OSError, and so from Exception.                                         *)
(***************************************************************************)
Parent ==
    [gaierror                |-> "OSError",
     ConnectionRefusedError  |-> "OSError",
     SMTPConnectError        |-> "SMTPException",
     SMTPHeloError           |-> "SMTPException",
     SMTPSenderRefused       |-> "SMTPException",
     SMTPRecipientsRefused   |-> "SMTPException",
     SMTPDataError           |-> "SMTPException",
     SMTPServerDisconnected  |-> "SMTPException",
     SMTPException           |-> "OSError",
     OSError                 |-> "Exception",
     Exception               |-> "BaseException"]

RECURSIVE IsSubclass(_, _)
IsSubclass(c, base) ==
    \/ c = base
    \/ c \in DOMAIN Parent /\ IsSubclass(Parent[c], base)

\* str(e), the text after "FAILED Failed to send email: "
ErrText ==
    [gaierror                |-> "[Errno -8] Servname not supported for ai_socktype",
     ConnectionRefusedError  |-> "[Errno 111] Connection refused",
     SMTPConnectError        |-> "(554, b'rejected')",
     SMTPHeloError           |-> "(550, b'rejected')",
     SMTPSenderRefused       |-> "(550, b'rejected', from_addr)",
     SMTPRecipientsRefused   |-> "{to_addr: (550, b'rejected')}",
     SMTPDataError           |-> "(554, b'rejected')",
     SMTPServerDisconnected  |-> "Connection unexpectedly closed"]

\* as Catches, for a clause `except smtplib.SMTPException`
CatchesOnlySMTPException(e) == IsSubclass(e, "SMTPException")

\* line 43: except Exception as e
Catches(e) == IsSubclass(e, "Exception")

(***************************************************************************)
(* The endpoint.  A behaviour names the stage at which the endpoint        *)
(* departs from accepting, and how.                                        *)
(*   refuse    the TCP connection is refused                               *)
(*   reject    a rejection reply (not 220 to the greeting, 5xx to a        *)
(*             command, not 221 to QUIT)                                   *)
(*   reject421 reply 421: the service is shutting the channel down         *)
(*   drop      the connection breaks while the client waits for the reply  *)
(*   silent    the endpoint never answers                                  *)
(***************************************************************************)
Accept == [stage |-> "none", kind |-> "ok"]

Faults ==
    {[stage |-> "connect", kind |-> k] : k \in {"refuse", "reject", "silent"}}
    \cup {[stage |-> st, kind |-> k] :
            st \in {"helo", "data"}, k \in {"reject", "drop", "silent"}}
    \cup {[stage |-> st, kind |-> k] :
            st \in {"mail", "rcpt", "body"},
            k \in {"reject", "reject421", "drop", "silent"}}
    \cup {[stage |-> "quit", kind |-> k] : k \in {"reject", "drop", "silent"}}

Behaviours == {Accept} \cup Faults

\* the endpoint's answer at stage st under behaviour b
Reply(b, st) == IF b.stage = st THEN b.kind ELSE "ok"

NumFaults(p) == Cardinality({k \in 1..Len(p) : p[k] # Accept})

\* socket.create_connection can resolve the port
ValidPort(p) == p \in 1..65535

\* line 32 passes no timeout and nothing calls socket.setdefaulttimeout:
\* the socket blocks without limit
HasTimeout == FALSE

VARIABLES
    pc,       \* the statement the program is at
    i,        \* the test main() is at, 1..5 (0 before the first)
    port,     \* the smtp_port the calls run with
    args,     \* send_test_email's parameters in the current call
    msg,      \* local msg
    text,     \* local text
    server,   \* local server: an index of conns, 0 when there is none
    exc,      \* the exception in flight, "none" when there is none
    out,      \* the lines printed so far
    rets,     \* the values send_test_email has returned so far
    conns,    \* every connection opened so far, as the endpoint sees it
    plan,     \* the endpoint's behaviour for the cases begun so far
    budget,   \* how many cases of the run may meet a fault
    base,     \* the outcome of the run this one is compared with, if any
    attempts  \* the cases for which line 32 ran, in order

vars == <<pc, i, port, args, msg, text, server, exc, out, rets, conns, plan,
          budget, base, attempts>>

\* `server` names no connection
NoServer == 0

\* as ServerAfterReturn, were the connection kept in a name that outlives the call
ServerKept == server

\* `server` once a call has returned: the local is gone
ServerAfterReturn == NoServer

\* as ExceptReturn, returning True
ExceptReturnTrue == TRUE

\* line 45: return False
ExceptReturn == FALSE

NoArgs == [p \in {} |-> ""]

NoMsg == [headers |-> << >>, parts |-> << >>]

Line(kind, case, detail) == [kind |-> kind, case |-> case, detail |-> detail]

NewConn(case, state) ==
    [owner |-> case, state |-> state, users |-> {case}, mails |-> 0,
     mail_from |-> "", rcpt_to |-> << >>, data |-> "", accepted |-> FALSE]

InitWith(p, n) ==
    /\ pc = "main"
    /\ i = 0
    /\ port = p
    /\ args = NoArgs
    /\ msg = NoMsg
    /\ text = ""
    /\ server = NoServer
    /\ exc = "none"
    /\ out = << >>
    /\ rets = << >>
    /\ conns = << >>
    /\ plan = << >>
    /\ budget = n
    /\ base = << >>
    /\ attempts = << >>

\* main() calls send_test_email without smtp_host and smtp_port
Init == InitWith(Defaults.smtp_port, MaxFaults)

\* lines 48-49
Main ==
    /\ pc = "main"
    /\ out' = Append(out, Line("BANNER", 0, "fr0g.ai ESMTP Threat Vector Interceptor Test Suite"))
    /\ i' = 1
    /\ pc' = "call"
    /\ UNCHANGED <<port, args, msg, text, server, exc, rets, conns, plan, budget, base, attempts>>

\* the i-th call of main() binds the parameters; lines 18-21 print the block
Call(b) ==
    /\ pc = "call"
    /\ IF Len(plan) >= i
       THEN b = plan[i] /\ plan' = plan
       ELSE /\ b # Accept => ValidPort(port) /\ NumFaults(plan) < budget
            /\ plan' = Append(plan, b)
    /\ args' = [BindArgs(TestCases[i]) EXCEPT !.smtp_port = port]
    /\ out' = Append(out, Line("TESTING", i, args'.test_name))
    /\ pc' = "build"
    /\ UNCHANGED <<i, port, msg, text, server, exc, rets, conns, budget, base, attempts>>

\* lines 25-29
Build ==
    /\ pc = "build"
    /\ msg' = BuildMessage(args.from_addr, args.to_addr, args.subject, args.body)
    /\ pc' = "connect"
    /\ UNCHANGED <<i, port, args, text, server, exc, out, rets, conns, plan, budget, base, attempts>>

\* the connection the running call holds a reference to
Held(c) ==
    \/ c = server
    \/ pc = "blocked" /\ c = Len(conns) /\ conns[c].owner = i

\* line 32: smtplib.SMTP(smtp_host, smtp_port) resolves the address,
\* connects and reads the greeting; anything but 220 closes the socket and
\* raises SMTPConnectError
Connect ==
    /\ pc = "connect"
    /\ LET r == Reply(plan[i], "connect")
           c == Len(conns) + 1
       IN  IF ~ValidPort(args.smtp_port)
           THEN /\ exc' = "gaierror"
                /\ pc' = "except"
                /\ UNCHANGED <<conns, server>>
           ELSE CASE r = "refuse" ->
                     /\ exc' = "ConnectionRefusedError"
                     /\ pc' = "except"
                     /\ UNCHANGED <<conns, server>>
                  [] r = "reject" ->
                     /\ conns' = Append(conns, NewConn(i, "closed"))
                     /\ exc' = "SMTPConnectError"
                     /\ pc' = "except"
                     /\ UNCHANGED server
                  [] r = "silent" ->
                     IF HasTimeout
                     THEN /\ conns' = Append(conns, NewConn(i, "closed"))
                          /\ exc' = "SMTPServerDisconnected"
                          /\ pc' = "except"
                          /\ UNCHANGED server
                     ELSE /\ conns' = Append(conns, NewConn(i, "open"))
                          /\ pc' = "blocked"
                          /\ UNCHANGED <<exc, server>>
                  [] OTHER ->
                     /\ conns' = Append(conns, NewConn(i, "open"))
                     /\ server' = c
                     /\ pc' = "as_string"
                     /\ UNCHANGED exc
    /\ attempts' = Append(attempts, i)
    /\ UNCHANGED <<i, port, args, msg, text, out, rets, plan, budget, base>>

\* line 36
Render ==
    /\ pc = "as_string"
    /\ text' = AsString(msg)
    /\ pc' = "helo"
    /\ UNCHANGED <<i, port, args, msg, server, exc, out, rets, conns, plan, budget, base, attempts>>

\* What follows a command of sendmail (line 37) or quit (line 38).  `sent`
\* is conns after the command went out, `refused` the exception a rejection
\* reply raises, `closes421` whether a 421 reply makes smtplib close the
\* connection.  A rejection leaves the connection open (sendmail resets the
\* session and raises); a broken connection is closed by getreply, which
\* raises SMTPServerDisconnected; a read that gets no answer ends so too
\* when a timeout is set, and blocks when none is.
Answer(st, sent, refused, closes421, next) ==
    LET r      == Reply(plan[i], st)
        closed == [sent EXCEPT ![server].state = "closed"]
    IN  CASE r = "reject" ->
             /\ conns' = sent
             /\ exc' = refused
             /\ pc' = "except"
          [] r = "reject421" ->
             /\ conns' = IF closes421 THEN closed ELSE sent
             /\ exc' = refused
             /\ pc' = "except"
          [] r = "drop" \/ (r = "silent" /\ HasTimeout) ->
             /\ conns' = closed
             /\ exc' = "SMTPServerDisconnected"
             /\ pc' = "except"
          [] r = "silent" /\ ~HasTimeout ->
             /\ conns' = sent
             /\ pc' = "blocked"
             /\ UNCHANGED exc
          [] OTHER ->
             /\ conns' = sent
             /\ pc' = next
             /\ UNCHANGED exc

Uses(c) == [c EXCEPT !.users = @ \cup {i}]

\* line 37, sendmail: ehlo_or_helo_if_needed()
Helo ==
    /\ pc = "helo"
    /\ Answer("helo", [conns EXCEPT ![server] = Uses(@)],
              "SMTPHeloError", FALSE, "mail")
    /\ UNCHANGED <<i, port, args, msg, text, server, out, rets, plan, budget, base, attempts>>

\* line 37, sendmail: MAIL FROM:<from_addr>
Mail ==
    /\ pc = "mail"
    /\ Answer("mail",
              [conns EXCEPT ![server] =
                  [Uses(@) EXCEPT !.mails = @ + 1, !.mail_from = args.from_addr]],
              "SMTPSenderRefused", TRUE, "rcpt")
    /\ UNCHANGED <<i, port, args, msg, text, server, out, rets, plan, budget, base, attempts>>

\* the to_addrs argument of line 37
ToAddrs(a) == << a.to_addr >>

\* line 37, sendmail: RCPT TO:<each> for each of to_addrs; with every
\* recipient refused it raises SMTPRecipientsRefused
Rcpt ==
    /\ pc = "rcpt"
    /\ Answer("rcpt",
              [conns EXCEPT ![server] =
                  [Uses(@) EXCEPT !.rcpt_to = @ \o ToAddrs(args)]],
              "SMTPRecipientsRefused", TRUE, "data")
    /\ UNCHANGED <<i, port, args, msg, text, server, out, rets, plan, budget, base, attempts>>

\* line 37, sendmail: DATA; data() raises SMTPDataError unless the reply is 354
Data ==
    /\ pc = "data"
    /\ Answer("data", [conns EXCEPT ![server] = Uses(@)],
              "SMTPDataError", FALSE, "body")
    /\ UNCHANGED <<i, port, args, msg, text, server, out, rets, plan, budget, base, attempts>>

\* line 37, sendmail: the message text and the final dot
Body ==
    /\ pc = "body"
    /\ LET r == Reply(plan[i], "body") IN
       Answer("body",
              [conns EXCEPT ![server] =
                  [Uses(@) EXCEPT !.data = text, !.accepted = (r = "ok")]],
              "SMTPDataError", TRUE, "quit")
    /\ UNCHANGED <<i, port, args, msg, text, server, out, rets, plan, budget, base, attempts>>

\* line 38: quit() sends QUIT, reads the reply and closes the connection;
\* it returns the reply, whatever its code, and line 38 drops it
Quit ==
    /\ pc = "quit"
    /\ LET r    == Reply(plan[i], "quit")
           sent == [conns EXCEPT ![server] = Uses(@)]
       IN  IF r \in {"ok", "reject"}
           THEN /\ conns' = [sent EXCEPT ![server].state = "closed"]
                /\ pc' = "completed"
                /\ UNCHANGED exc
           ELSE Answer("quit", sent, "SMTPServerDisconnected", TRUE, "completed")
    /\ UNCHANGED <<i, port, args, msg, text, server, out, rets, plan, budget, base, attempts>>

\* as AfterCall, but main() stops calling after a failed call
AfterCallFailFast == IF i < NumCases /\ pc = "completed" THEN "sleep" ELSE "tips"

\* where main() goes on after the i-th call returned
AfterCall == IF i < NumCases THEN "sleep" ELSE "tips"

\* lines 40-41; the locals go out of scope with the return
Completed ==
    /\ pc = "completed"
    /\ out' = Append(out, Line("COMPLETED", i, ""))
    /\ rets' = Append(rets, TRUE)
    /\ args' = NoArgs /\ msg' = NoMsg /\ text' = "" /\ server' = ServerAfterReturn
    /\ pc' = AfterCall
    /\ UNCHANGED <<i, port, exc, conns, plan, budget, base, attempts>>

\* lines 43-45; an exception the clause does not catch ends the program
Except ==
    /\ pc = "except"
    /\ IF Catches(exc)
       THEN /\ out' = Append(out, Line("FAILED", i, ErrText[exc]))
            /\ rets' = Append(rets, ExceptReturn)
            /\ exc' = "none"
            /\ pc' = AfterCall
       ELSE /\ pc' = "aborted"
            /\ UNCHANGED <<out, rets, exc>>
    /\ args' = NoArgs /\ msg' = NoMsg /\ text' = "" /\ server' = ServerAfterReturn
    /\ UNCHANGED <<i, port, conns, plan, budget, base, attempts>>

\* lines 60, 71, 82, 93: time.sleep(1), then the next call
Sleep ==
    /\ pc = "sleep"
    /\ i' = i + 1
    /\ pc' = "call"
    /\ UNCHANGED <<port, args, msg, text, server, exc, out, rets, conns, plan, budget, base, attempts>>

\* lines 104-109
Tips ==
    /\ pc = "tips"
    /\ out' = Append(out, Line("SUITE", 0, "ESMTP Test Suite Completed!"))
    /\ pc' = "done"
    /\ UNCHANGED <<i, port, args, msg, text, server, exc, rets, conns, plan, budget, base, attempts>>

\* The SMTP object of a call that returned without quit() or close() is
\* unreferenced; its socket is closed when the interpreter reclaims it,
\* which the language leaves to the implementation: at any later moment,
\* or never.
Finalize(c) ==
    /\ conns[c].state = "open"
    /\ ~Held(c)
    /\ conns' = [conns EXCEPT ![c].state = "closed"]
    /\ UNCHANGED <<pc, i, port, args, msg, text, server, exc, out, rets, plan, budget, base, attempts>>

Step ==
    \/ Main
    \/ \E b \in Behaviours : Call(b)
    \/ Build
    \/ Connect
    \/ Render
    \/ Helo
    \/ Mail
    \/ Rcpt
    \/ Data
    \/ Body
    \/ Quit
    \/ Completed
    \/ Except
    \/ Sleep
    \/ Tips

Next ==
    \/ Step
    \/ \E c \in 1..Len(conns) : Finalize(c)

Spec == Init /\ [][Next]_vars

\* The program takes its next step whenever it has one.
FairSpec == Spec /\ WF_vars(Step)

(***************************************************************************)
(* send_test_email called with an smtp_port of the caller's choosing.      *)
(***************************************************************************)
ConfigPorts == {Defaults.smtp_port, -1}

InitCfg == \E p \in ConfigPorts : InitWith(p, MaxFaults)

SpecCfg == InitCfg /\ [][Next]_vars

(***************************************************************************)
(* Two runs against the same endpoint, the second with a failure forced on *)
(* the submission of one case.                                             *)
(***************************************************************************)
ForcedCase == 3

\* the endpoint behaviours that make a submission fail
Failures ==
    {f \in Faults : f.kind # "silent" /\ ~(f.stage = "quit" /\ f.kind = "reject")}

\* what the endpoint was sent for case k: envelope and payload of every
\* connection opened for it
Content(k) ==
    LET own == SelectSeq(conns, LAMBDA c : c.owner = k) IN
    [n \in 1..Len(own) |->
        [mail_from |-> own[n].mail_from, rcpt_to |-> own[n].rcpt_to,
         data |-> own[n].data, accepted |-> own[n].accepted]]

InitIso == InitWith(Defaults.smtp_port, MaxIsoFaults)

\* the finished run is kept for comparison and the program is started again
Rerun(f) ==
    /\ pc = "done"
    /\ base = << >>
    /\ base' = << [rets |-> rets, content |-> [k \in Cases |-> Content(k)]] >>
    /\ plan' = [plan EXCEPT ![ForcedCase] = f]
    /\ pc' = "main"
    /\ i' = 0
    /\ out' = << >>
    /\ rets' = << >>
    /\ conns' = << >>
    /\ attempts' = << >>
    /\ UNCHANGED <<port, args, msg, text, server, exc, budget>>

NextIso ==
    \/ Next
    \/ \E f \in Failures : Rerun(f)

SpecIso == InitIso /\ [][NextIso]_vars

(***************************************************************************)
(* What the claims speak of.                                               *)
(***************************************************************************)
\* the outcome lines printed so far
Outcomes == SelectSeq(out, LAMBDA l : l.kind \in {"COMPLETED", "FAILED"})

\* the pre-submission blocks printed so far
Blocks == SelectSeq(out, LAMBDA l : l.kind = "TESTING")

\* the calls of send_test_email that have returned
Returned == 1..Len(rets)

\* C1: every call that returned printed exactly one outcome line, the k-th
\* outcome line belongs to case k, it is COMPLETED exactly when the call
\* returned True, a FAILED line carries a description, no exception leaves
\* send_test_email, and when main() ends there are five outcomes, 1..5.
C1_OneOutcomePerCase ==
    /\ pc # "aborted"
    /\ Len(Outcomes) = Len(rets)
    /\ \A k \in Returned :
          /\ Outcomes[k].case = k
          /\ Outcomes[k].kind = IF rets[k] THEN "COMPLETED" ELSE "FAILED"
          /\ Outcomes[k].kind = "FAILED" => Outcomes[k].detail # ""
    /\ Len(rets) = IF pc \in {"main", "sleep", "tips", "done"} THEN i
                   ELSE i - 1
    /\ pc \in {"tips", "done"} => Len(rets) = NumCases

\* a finished run with both kinds of outcome
C1_Witness ==
    /\ pc = "done"
    /\ \E k \in Returned : rets[k]
    /\ \E k \in Returned : ~rets[k]

\* C2: a failed case never ends the run: no exception leaves
\* send_test_email, after a failed case k < 5 the program is on its way to
\* case k+1 or has attempted it, and a finished run has attempted all five
\* cases in order.
C2_NoFailFast ==
    /\ pc # "aborted"
    /\ \A k \in Returned :
          (~rets[k] /\ k < NumCases) =>
             \/ pc = "sleep" /\ i = k
             \/ pc \in {"call", "build", "connect"} /\ i = k + 1
             \/ \E a \in 1..Len(attempts) : attempts[a] = k + 1
    /\ pc \in {"tips", "done"} => attempts = [k \in Cases |-> k]

\* a finished run whose first case failed
C2_Witness ==
    /\ pc = "done"
    /\ ~rets[1]
    /\ Len(attempts) = NumCases

\* C3 as claimed: once the call for a case has returned, every connection
\* opened for that case is closed.
C3_ClosedOnReturn ==
    \A c \in 1..Len(conns) :
        conns[c].owner \in Returned => conns[c].state = "closed"

QuitRejected == [stage |-> "quit", kind |-> "reject"]

\* C4 as claimed: a call returns True exactly when the endpoint accepted
\* every stage, quit included.
C4_SuccessIffEveryStageAccepted ==
    \A k \in Returned : rets[k] <=> plan[k] = Accept

\* C4 as amended: a call returns True exactly when connect, envelope and
\* data were accepted and no transport error occurred at any stage (a
\* rejection reply to QUIT is not a failure); a True return comes with a
\* COMPLETED line without detail, a False return with a FAILED line that
\* carries a description.
C4_SuccessIffAcceptedUpToQuit ==
    \A k \in Returned :
        /\ rets[k] <=> plan[k] \in {Accept, QuitRejected}
        /\ rets[k] => Outcomes[k].kind = "COMPLETED" /\ Outcomes[k].detail = ""
        /\ ~rets[k] => Outcomes[k].kind = "FAILED" /\ Outcomes[k].detail # ""

\* a finished run in which a call returned True although QUIT was rejected
C4_Witness ==
    /\ pc = "done"
    /\ \E k \in Returned : plan[k] = QuitRejected /\ rets[k]

OutcomeAt(k) ==
    LET at == {n \in 1..Len(out) :
                 out[n].kind \in {"COMPLETED", "FAILED"} /\ out[n].case = k}
    IN  IF at = {} THEN 0 ELSE CHOOSE n \in at : TRUE

\* C6: the cases run one after the other and a connection serves one
\* submission: the block of case k+1 is printed after the outcome of case
\* k, a connection is opened for one case and used during that case alone,
\* it carries at most one message, no case opens two connections, and the
\* connection the program holds is the one of the case it is at.
C6_SequentialAndScoped ==
    /\ \A n \in 1..Len(out) :
          (out[n].kind = "TESTING" /\ out[n].case > 1) =>
              /\ OutcomeAt(out[n].case - 1) \in 1..(n - 1)
    /\ \A c \in 1..Len(conns) :
          /\ conns[c].users = {conns[c].owner}
          /\ conns[c].mails <= 1
          /\ Held(c) => conns[c].owner = i
          /\ \A d \in 1..Len(conns) : conns[d].owner = conns[c].owner => d = c
    /\ server # NoServer => server = Len(conns)

\* the program is in a later case while the endpoint has seen a message on
\* the connection of an earlier one
C6_Witness ==
    /\ i = 2
    /\ pc = "rcpt"
    /\ Len(conns) = 2
    /\ conns[1].mails = 1
    /\ conns[2].mails = 1

\* C7: the envelope of every connection is the one of the case the
\* connection was opened for: MAIL FROM carries that case's from_addr and
\* the recipients are no more than that case's to_addr, which is the sole
\* recipient of every message the endpoint accepted.
C7_EnvelopeOfTheCase ==
    \A c \in 1..Len(conns) :
        LET t == TestCases[conns[c].owner] IN
        /\ conns[c].mails > 0 => conns[c].mail_from = t.from_addr
        /\ conns[c].mails = 0 => conns[c].mail_from = ""
        /\ conns[c].rcpt_to \in {<< >>, << t.to_addr >>}
        /\ conns[c].data # "" => conns[c].rcpt_to = << t.to_addr >>

\* the endpoint accepted the phishing message with its envelope
C7_Witness ==
    \E c \in 1..Len(conns) :
        /\ conns[c].accepted
        /\ conns[c].owner = 3
        /\ conns[c].mail_from = "security@bank-fake.com"
        /\ conns[c].rcpt_to = << "customer@example.com" >>

\* C8: when the second run, with the failure forced on case 3, has
\* finished, every other case has the outcome and the content (envelope
\* and payload of its connections) it had in the first run.
C8_Isolation ==
    (base # << >> /\ pc = "done") =>
        /\ Len(rets) = NumCases
        /\ \A k \in Cases \ {ForcedCase} :
              /\ rets[k] = base[1].rets[k]
              /\ Content(k) = base[1].content[k]

\* both runs finished; case 3 succeeded in the first and failed in the second
C8_Witness ==
    /\ base # << >>
    /\ pc = "done"
    /\ base[1].rets[ForcedCase]
    /\ ~rets[ForcedCase]
    /\ rets[4]

\* C9: the payload handed to the DATA stage reads back as the case's four
\* fields: From, To and Subject equal from_addr, to_addr and subject, and
\* there is one part, of type text/plain, whose text equals body.
C9_RenderParseRoundTrip ==
    (server # NoServer /\ conns[server].data # "") =>
        LET m == ParseMessage(conns[server].data)
            t == TestCases[i]
        IN  /\ m.from_addr = t.from_addr
            /\ m.to_addr = t.to_addr
            /\ m.subject = t.subject
            /\ m.nparts = 1
            /\ StartsWith(m.ctype, "text/plain")
            /\ m.body = t.body

\* the payload of the malware case has been handed over
C9_Witness ==
    /\ i = 4
    /\ pc = "quit"
    /\ conns[server].data = text
    /\ Len(text) > Len(TestCases[4].body)

\* C10 as claimed: every run ends, with all five outcomes.
C10_RunTerminates == <>(pc = "done" /\ Len(rets) = NumCases)

====
